---- MODULE Spec2Model ----
(***************************************************************************)
(* ZBarCam: the camera widget that scans each camera frame for barcodes.   *)
(* The repository holds two implementations of the widget:                 *)
(*   src/zbarcam.py          one worker thread per accepted frame,         *)
(*   src/zbarcam/zbarcam.py  the decode runs inside the on_texture handler.*)
(* `variant` selects the implementation a behaviour is about.              *)
(***************************************************************************)
EXTENDS Integers, Sequences, FiniteSets

VARIABLES
    variant,        \* which of the two ZBarCam classes is instantiated
    platform,       \* kivy.utils.platform
    code_types,     \* ZBarCam.code_types (synchronous variant)
    play,           \* the camera's play flag
    symbols,        \* ZBarCam.symbols
    threads,        \* every threading.Thread created so far, in creation order
    detect_qrcode_frame_thread,  \* self._detect_qrcode_frame_thread (0 is None)
    clock,          \* callbacks @mainthread has scheduled, not yet run
    escaped,        \* an exception has left the on_texture handler
    texture,        \* the camera's texture at the latest on_texture event
    pil_mode,       \* history: mode the synchronous variant gave PIL last
    arrived,        \* history: on_texture events delivered
    dropped,        \* history: on_texture events that returned without a decode
    applied,        \* history: cycle whose result was assigned to symbols last
    decode_ctx,     \* history: contexts in which frombytes/decode have run
    write_ctx       \* history: contexts that have assigned symbols

vars == <<variant, platform, code_types, play, symbols, threads,
          detect_qrcode_frame_thread, clock, escaped, texture, arrived, dropped,
          applied, decode_ctx, write_ctx, pil_mode>>

\* Number of on_texture events of one behaviour.
MaxFrames == 3

None == 0

Variants == {"threaded", "sync"}
Platforms == {"ios", "android"}

\* Symbologies (pyzbar.ZBarSymbol / zbar symbol types).
ZBarSymbol == {"QRCODE", "EAN13"}
TypeSets == {{}, {"QRCODE"}, ZBarSymbol}

\* What the external decoder reports for one symbol found in an image.
CodeA == [type |-> "QRCODE", data |-> "a", quality |-> 1, count |-> 0]
CodeB == [type |-> "EAN13", data |-> "b", quality |-> 2, count |-> 0]
Contents == {<<>>, <<CodeA>>, <<CodeB, CodeA>>}

\* Texture.size of the camera texture, width and height.
TextureSize == <<2, 1>>
ColorFmts == {"rgba", "bgra"}
PixelLens == {8, 4}

\* A camera frame as on_texture sees it: instance.texture and its pixels.
\* `codes` is what the picture shows, `scan_error` whether the external
\* decoder reports a hard error on it.  A buffer too short for the texture
\* shows nothing.
Frames ==
    [colorfmt : ColorFmts, size : {TextureSize}, len : {8},
     codes : Contents, scan_error : BOOLEAN]
    \cup
    [colorfmt : ColorFmts, size : {TextureSize}, len : PixelLens \ {8},
     codes : {<<>>}, scan_error : {FALSE}]

NoFrame == [colorfmt |-> "", size |-> <<0, 0>>, len |-> 0,
            codes |-> <<>>, scan_error |-> FALSE]

\* str.upper() on the colour formats kivy reports.
upper(s) ==
    CASE s = "rgba" -> "RGBA"
      [] s = "bgra" -> "BGRA"
      [] OTHER -> s

\* Modes PIL.Image.frombytes accepts, and their bytes per pixel.
PILModes == {"RGBA", "RGB", "L"}
BytesPerPixel(mode) ==
    CASE mode = "RGBA" -> 4
      [] mode = "RGB" -> 3
      [] OTHER -> 1

\* PIL.Image.frombytes(mode, size, data): raises ValueError on a mode PIL
\* does not know and on too little data.
frombytes_raises(mode, size, len) ==
    \/ mode \notin PILModes
    \/ len < size[1] * size[2] * BytesPerPixel(mode)

\* The namedtuples built from the decoder's symbols, in the decoder's order:
\* the loop of the threaded variant (Qrcode) and of the synchronous one
\* (Symbol, which keeps type and data only).
\* Qrcodes with the list started from the published one instead of [].
RECURSIVE Qrcodes_carried(_)
Qrcodes_carried(codes) ==
    IF codes = <<>> THEN symbols
    ELSE Append(Qrcodes_carried(SubSeq(codes, 1, Len(codes) - 1)),
                [type |-> codes[Len(codes)].type,
                 data |-> codes[Len(codes)].data,
                 bounds |-> "None",
                 quality |-> codes[Len(codes)].quality,
                 count |-> codes[Len(codes)].count])

RECURSIVE Qrcodes(_)
Qrcodes(codes) ==
    IF codes = <<>> THEN <<>>
    ELSE Append(Qrcodes(SubSeq(codes, 1, Len(codes) - 1)),
                [type |-> codes[Len(codes)].type,
                 data |-> codes[Len(codes)].data,
                 bounds |-> "None",
                 quality |-> codes[Len(codes)].quality,
                 count |-> codes[Len(codes)].count])

RECURSIVE Symbols(_)
Symbols(codes) ==
    IF codes = <<>> THEN <<>>
    ELSE Append(Symbols(SubSeq(codes, 1, Len(codes) - 1)),
                [type |-> codes[Len(codes)].type,
                 data |-> codes[Len(codes)].data])

\* pyzbar.decode(image, symbols=code_types): the symbols of the picture whose
\* type is enabled, in the decoder's order.  pyzbar restricts the scanner
\* only `if symbols:`, so an empty collection leaves every type enabled.
RECURSIVE SelectTypes(_, _)
SelectTypes(codes, enabled) ==
    IF codes = <<>> THEN <<>>
    ELSE IF codes[1].type \in enabled
         THEN <<codes[1]>> \o SelectTypes(Tail(codes), enabled)
         ELSE SelectTypes(Tail(codes), enabled)

pyzbar_decode(codes, types) ==
    SelectTypes(codes, IF types = {} THEN ZBarSymbol ELSE types)

--------------------------------------------------------------------------
\* Threaded variant, src/zbarcam.py

\* A thread that is created and never started.
\* A threading.Thread running _detect_qrcode_frame with its kwargs.
\* stale, pubs and codes are history: stop() was called while the thread was
\* alive, how often its result was assigned to symbols, what the scanner
\* reported for its image.
NewThread_unstarted(f) ==
    [pc |-> "new", frame |-> f, stale |-> FALSE, pubs |-> 0, codes |-> <<>>]

NewThread(f) ==
    [pc |-> "image", frame |-> f, stale |-> FALSE, pubs |-> 0, codes |-> <<>>]

\* The worker reading the camera's texture and pixels when it runs.
kwargs_live(t) == texture

\* The kwargs thread t was created with: the texture object and the pixels
\* read in _on_texture.  A Texture's size and colorfmt are fixed when it is
\* created, so the reference stands for the values at that moment.
kwargs(t) == threads[t].frame

\* is_alive without the check: every frame starts a worker.
is_alive_never(t) == FALSE

\* is_alive that takes a thread ended by an exception for a running one.
is_alive_until_returned(t) == threads[t].pc # "done"

\* is_alive that only tells whether the thread was ever started.
is_alive_once_started(t) == TRUE

\* Thread.is_alive(): from start() until run() returns or raises.
is_alive(t) == threads[t].pc \in {"image", "scan"}

Init ==
    /\ variant \in Variants
    /\ platform \in Platforms
    /\ code_types \in IF variant = "sync" THEN TypeSets ELSE {ZBarSymbol}
    /\ play = TRUE
    /\ symbols = <<>>
    /\ threads = <<>>
    /\ detect_qrcode_frame_thread = None
    /\ clock = <<>>
    /\ escaped = FALSE
    /\ texture = NoFrame
    /\ pil_mode = ""
    /\ arrived = 0
    /\ dropped = 0
    /\ applied = 0
    /\ decode_ctx = {}
    /\ write_ctx = {}

\* _on_texture of the threaded variant, dispatched by the playing camera on
\* the main thread with a new frame f in its texture.
on_texture(f) ==
    /\ variant = "threaded"
    /\ play
    /\ arrived < MaxFrames
    /\ UNCHANGED pil_mode
    /\ arrived' = arrived + 1
    /\ texture' = f
    /\ IF /\ detect_qrcode_frame_thread # None
          /\ is_alive(detect_qrcode_frame_thread)
       THEN /\ dropped' = dropped + 1
            /\ UNCHANGED <<threads, detect_qrcode_frame_thread>>
       ELSE /\ threads' = Append(threads, NewThread(f))
            /\ detect_qrcode_frame_thread' = Len(threads) + 1
            /\ UNCHANGED dropped
    /\ UNCHANGED <<variant, platform, code_types, play, symbols, clock,
                   escaped, applied, decode_ctx, write_ctx>>

\* Worker thread t, first half of _detect_qrcode_frame: build the PIL image
\* from the texture's size and format and the captured pixels, convert it to
\* greyscale and wrap it in a zbar.Image.  A ValueError ends the thread.
detect_qrcode_frame_image(t) ==
    /\ variant = "threaded"
    /\ t \in DOMAIN threads
    /\ threads[t].pc = "image"
    /\ UNCHANGED pil_mode
    /\ LET fr == kwargs(t)
           fmt == upper(fr.colorfmt)
       IN  IF frombytes_raises(fmt, fr.size, fr.len)
           THEN threads' = [threads EXCEPT ![t].pc = "raised",
                                           ![t].frame = NoFrame]
           ELSE threads' = [threads EXCEPT ![t].pc = "scan"]
    /\ decode_ctx' = decode_ctx \cup {"worker"}
    /\ UNCHANGED <<variant, platform, code_types, play, symbols,
                   detect_qrcode_frame_thread, clock, escaped, texture,
                   arrived, dropped, applied, write_ctx>>

\* Worker thread t, second half of _detect_qrcode_frame: scan the image;
\* with no symbol found assign symbols = [] and return, otherwise build the
\* Qrcode list and hand it to _update_symbols, whose @mainthread wrapper
\* schedules the assignment on the main thread's clock.
detect_qrcode_frame_scan(t) ==
    /\ variant = "threaded"
    /\ t \in DOMAIN threads
    /\ threads[t].pc = "scan"
    /\ UNCHANGED pil_mode
    /\ LET fr == kwargs(t)
           result == Len(fr.codes)
       IN  IF fr.scan_error
           THEN /\ threads' = [threads EXCEPT ![t].pc = "raised",
                                              ![t].frame = NoFrame]
                /\ UNCHANGED <<symbols, clock, applied, write_ctx>>
           ELSE IF result = 0
           THEN /\ symbols' = <<>>
                /\ write_ctx' = write_ctx \cup {"worker"}
                /\ applied' = t
                /\ threads' = [threads EXCEPT ![t].pc = "done",
                                              ![t].frame = NoFrame,
                                              ![t].codes = fr.codes,
                                              ![t].pubs = @ + 1]
                /\ UNCHANGED clock
           ELSE /\ clock' = Append(clock, [symbols |-> Qrcodes(fr.codes),
                                           src |-> t])
                /\ threads' = [threads EXCEPT ![t].pc = "done",
                                              ![t].frame = NoFrame,
                                              ![t].codes = fr.codes]
                /\ UNCHANGED <<symbols, applied, write_ctx>>
    /\ UNCHANGED <<variant, platform, code_types, play,
                   detect_qrcode_frame_thread, escaped, texture, arrived,
                   dropped, decode_ctx>>

\* The main thread runs the oldest scheduled _update_symbols call.
update_symbols ==
    /\ variant = "threaded"
    /\ clock # <<>>
    /\ UNCHANGED pil_mode
    /\ symbols' = Head(clock).symbols
    /\ clock' = Tail(clock)
    /\ write_ctx' = write_ctx \cup {"main"}
    /\ applied' = Head(clock).src
    /\ threads' = [threads EXCEPT ![Head(clock).src].pubs = @ + 1]
    /\ UNCHANGED <<variant, platform, code_types, play,
                   detect_qrcode_frame_thread, escaped, texture, arrived,
                   dropped, decode_ctx>>

--------------------------------------------------------------------------
\* Both variants

start ==
    /\ ~escaped
    /\ play' = TRUE
    /\ UNCHANGED pil_mode
    /\ UNCHANGED <<variant, platform, code_types, symbols, threads,
                   detect_qrcode_frame_thread, clock, escaped, texture,
                   arrived, dropped, applied, decode_ctx, write_ctx>>

\* stop() that also clears the published list.
stop_clearing ==
    /\ ~escaped
    /\ play' = FALSE
    /\ symbols' = <<>>
    /\ threads' = [t \in DOMAIN threads |->
                     IF threads[t].pc \in {"image", "scan"}
                     THEN [threads[t] EXCEPT !.stale = TRUE]
                     ELSE threads[t]]
    /\ UNCHANGED <<variant, platform, code_types,
                   detect_qrcode_frame_thread, clock, escaped, texture,
                   arrived, dropped, applied, decode_ctx, write_ctx, pil_mode>>

\* stop(); the history field stale marks the decodes in flight at the call.
stop ==
    /\ ~escaped
    /\ play' = FALSE
    /\ UNCHANGED pil_mode
    /\ threads' = [t \in DOMAIN threads |->
                     IF threads[t].pc \in {"image", "scan"}
                     THEN [threads[t] EXCEPT !.stale = TRUE]
                     ELSE threads[t]]
    /\ UNCHANGED <<variant, platform, code_types, symbols,
                   detect_qrcode_frame_thread, clock, escaped, texture,
                   arrived, dropped, applied, decode_ctx, write_ctx>>

--------------------------------------------------------------------------
\* Synchronous variant, src/zbarcam/zbarcam.py

\* image_format without the platform test.
image_format_everywhere(plat, colorfmt) ==
    IF upper(colorfmt) = "BGRA" THEN "RGBA"
    ELSE upper(colorfmt)

\* The pixel format _detect_qrcode_frame hands to PIL.
image_format(plat, colorfmt) ==
    IF plat = "ios" /\ upper(colorfmt) = "BGRA" THEN "RGBA"
    ELSE upper(colorfmt)

\* _detect_qrcode_frame(texture, code_types) raises: PIL rejects the bytes
\* or pyzbar reports a scanner error.
detect_raises(plat, tex) ==
    \/ frombytes_raises(image_format(plat, tex.colorfmt), tex.size, tex.len)
    \/ tex.scan_error

\* _detect_qrcode_frame(texture, code_types) when it returns.
detect_qrcode_frame(tex, types) == Symbols(pyzbar_decode(tex.codes, types))

\* _on_texture of the synchronous variant: the decode runs in the handler
\* and its result is assigned to symbols; an exception leaves the handler
\* before the assignment and ends the kivy event loop.
on_texture_sync(f) ==
    /\ variant = "sync"
    /\ play
    /\ ~escaped
    /\ arrived < MaxFrames
    /\ arrived' = arrived + 1
    /\ texture' = f
    /\ decode_ctx' = decode_ctx \cup {"main"}
    /\ pil_mode' = image_format(platform, f.colorfmt)
    /\ IF detect_raises(platform, f)
       THEN /\ escaped' = TRUE
            /\ UNCHANGED <<symbols, applied, write_ctx>>
       ELSE /\ symbols' = detect_qrcode_frame(f, code_types)
            /\ applied' = arrived + 1
            /\ write_ctx' = write_ctx \cup {"main"}
            /\ UNCHANGED escaped
    /\ UNCHANGED <<variant, platform, code_types, play, threads,
                   detect_qrcode_frame_thread, clock, dropped>>

--------------------------------------------------------------------------
Next ==
    \/ \E f \in Frames : on_texture(f)
    \/ \E t \in DOMAIN threads : detect_qrcode_frame_image(t)
    \/ \E t \in DOMAIN threads : detect_qrcode_frame_scan(t)
    \/ update_symbols
    \/ start
    \/ stop
    \/ \E f \in Frames : on_texture_sync(f)

Spec == Init /\ [][Next]_vars

\* The operating system keeps running a started worker thread, and the kivy
\* clock runs every scheduled callback.
Fairness ==
    /\ \A t \in 1..MaxFrames : WF_vars(detect_qrcode_frame_image(t))
    /\ \A t \in 1..MaxFrames : WF_vars(detect_qrcode_frame_scan(t))
    /\ WF_vars(update_symbols)

FairSpec == Spec /\ Fairness

--------------------------------------------------------------------------
\* Properties

\* The worker threads that have been started and have not ended.
Alive == {t \in DOMAIN threads : threads[t].pc \in {"image", "scan"}}
Ended(t) == threads[t].pc \in {"done", "raised"}

\* The Qrcode list a scanner report stands for, element by element.
QrcodeList(codes) ==
    [i \in 1..Len(codes) |->
        [type |-> codes[i].type, data |-> codes[i].data, bounds |-> "None",
         quality |-> codes[i].quality, count |-> codes[i].count]]

\* The Symbol list a pyzbar report stands for, element by element.
SymbolList(codes) ==
    [i \in 1..Len(codes) |-> [type |-> codes[i].type, data |-> codes[i].data]]

\* C1: in the threaded variant at most one worker thread is alive at a time,
\* whatever the interleaving of frame arrivals, worker steps and stop/start.
C1_AtMostOneDecode == Cardinality(Alive) <= 1

\* C1 witness: a second worker is alive after the first one ended, and a
\* frame has been dropped meanwhile.
C1_Witness ==
    /\ Len(threads) >= 2
    /\ dropped >= 1
    /\ Alive = {Len(threads)}

\* C2: every assignment to symbols is made on the main thread, never on a
\* worker thread, whatever the decode found.
C2_WritesOnMainOnly == write_ctx \subseteq {"main"}

\* C3: the result of a decode that was in flight when stop() was called
\* does not change symbols when it is published later.
C3_StaleResultDiscarded ==
    [][\A t \in DOMAIN threads :
          (threads[t].stale /\ threads'[t].pubs > threads[t].pubs)
              => symbols' = symbols]_vars

\* C4: no frame is queued (every arrival is either decoded by its own worker
\* or dropped), and a burst of frames that all arrive during the first
\* decode ends with one decode, the other frames dropped and exactly one
\* assignment to symbols.
C4_BurstOneDecodeOnePublish ==
    variant = "threaded" =>
        /\ arrived = Len(threads) + dropped
        /\ (/\ Len(threads) = 1
            /\ dropped >= 1
            /\ Ended(1)
            /\ clock = <<>>) => threads[1].pubs = 1

\* C5: results are applied to symbols in dispatch order: after the result of
\* a later cycle has been applied, no earlier cycle's result is applied.
C5_AppliedInDispatchOrder == [][applied' >= applied]_vars

\* C6: in the threaded variant a worker that ended with an exception leaves
\* the scheduler idle: the next frame arrival starts a new worker on that
\* frame.
C6_AcceptsAfterFailure ==
    [][(/\ variant = "threaded"
        /\ arrived' = arrived + 1
        /\ detect_qrcode_frame_thread # None
        /\ threads[detect_qrcode_frame_thread].pc = "raised")
       => /\ Len(threads') = Len(threads) + 1
          /\ detect_qrcode_frame_thread' = Len(threads')
          /\ threads'[Len(threads')].pc = "image"
          /\ threads'[Len(threads')].frame = texture'
          /\ dropped' = dropped]_vars

\* C6 witness: a frame was accepted and decoded after a worker had raised.
C6_Witness ==
    \E t \in DOMAIN threads :
        /\ t > 1
        /\ threads[t - 1].pc = "raised"
        /\ threads[t].pc = "done"

\* C7: in the synchronous variant no normalize or decode failure leaves the
\* on_texture handler.
C7_NoExceptionLeavesHandler == variant = "sync" => ~escaped

\* C8: a cycle whose decode fails hard leaves symbols empty.
C8_FailureClearsSymbols ==
    [][(\/ \E t \in DOMAIN threads :
              threads[t].pc # "raised" /\ threads'[t].pc = "raised"
        \/ ~escaped /\ escaped')
       => symbols' = <<>>]_vars

\* C9: when the result of a cycle that completed without error is assigned,
\* symbols is exactly the list of that cycle's decoded symbols, in the
\* decoder's order: empty when the frame shows none, and with nothing kept
\* from an earlier cycle.
C9_PublishedIsCycleResult ==
    [][/\ \A t \in DOMAIN threads :
             threads'[t].pubs > threads[t].pubs
                 => symbols' = QrcodeList(threads'[t].codes)
       /\ (variant = "sync" /\ arrived' = arrived + 1 /\ ~escaped')
             => symbols' = SymbolList(pyzbar_decode(texture'.codes, code_types))
      ]_vars

\* C9 witness: a cycle that found no symbol has replaced the non-empty list
\* of the cycle before it.
C9_Witness ==
    /\ symbols = <<>>
    /\ \/ \E t \in DOMAIN threads :
              /\ t > 1
              /\ applied = t
              /\ threads[t].pubs = 1
              /\ threads[t - 1].pubs = 1
              /\ threads[t - 1].codes = <<CodeB, CodeA>>
       \/ /\ variant = "sync"
          /\ applied = 2
          /\ texture.codes = <<>>
          /\ ~escaped

\* C10: in neither variant does the image conversion or the decode run in
\* the context that delivers the frames.
C10_DecodeOffMainContext == "main" \notin decode_ctx

\* C11: with an empty code_types a detection cycle of the synchronous
\* variant that PIL and the scanner accept yields the empty list, whatever
\* the frame shows.
C11_EmptyTypesYieldNothing ==
    [][(/\ variant = "sync"
        /\ code_types = {}
        /\ arrived' = arrived + 1
        /\ ~detect_raises(platform, texture'))
       => symbols' = <<>>]_vars

\* C12: running the detection function on a frame reads and writes no widget
\* state: the step in which a worker's _detect_qrcode_frame scans and
\* returns leaves symbols as it was.
C12_DetectionWritesNoState ==
    [][(\E t \in DOMAIN threads :
            threads[t].pc = "scan" /\ threads'[t].pc = "done")
       => symbols' = symbols]_vars

\* C13: in the threaded variant a frame that arrives while no worker is
\* alive starts a new worker on that frame: the first frame, a frame after a
\* worker that returned, a frame after a worker that raised.
C13_IdleFrameAccepted ==
    [][(/\ variant = "threaded"
        /\ arrived' = arrived + 1
        /\ Alive = {})
       => /\ threads' = Append(threads, [pc |-> "image", frame |-> texture',
                                         stale |-> FALSE, pubs |-> 0,
                                         codes |-> <<>>])
          /\ detect_qrcode_frame_thread' = Len(threads')
          /\ dropped' = dropped]_vars

\* C13 witness: three frames were accepted, the second after a worker that
\* returned and the third after a worker that raised.
C13_Witness ==
    /\ Len(threads) = 3
    /\ threads[1].pc = "done"
    /\ threads[2].pc = "raised"
    /\ dropped = 0

\* C15: what a worker decodes is the frame accepted in _on_texture: the
\* thread is created with the texture and pixels of the arriving frame,
\* keeps them while it runs, and the image it builds and the symbols it
\* scans come from them, whatever the camera delivers meanwhile.
C15_WorkerUsesAcceptedFrame ==
    [][/\ Len(threads') > Len(threads)
             => threads'[Len(threads')].frame = texture'
       /\ \A t \in DOMAIN threads :
             /\ threads'[t].pc \in {"image", "scan"}
                   => threads'[t].frame = threads[t].frame
             /\ (threads[t].pc = "image" /\ threads'[t].pc # "image")
                   => (threads'[t].pc = "raised"
                         <=> frombytes_raises(upper(threads[t].frame.colorfmt),
                                              threads[t].frame.size,
                                              threads[t].frame.len))
             /\ (threads[t].pc = "scan" /\ threads'[t].pc = "done")
                   => threads'[t].codes = threads[t].frame.codes
      ]_vars

\* C15 witness: the only worker returned with the symbols of its frame
\* while the camera had delivered a newer, different frame that was dropped.
C15_Witness ==
    /\ Len(threads) = 1
    /\ dropped >= 1
    /\ threads[1].pc = "done"
    /\ threads[1].codes = <<CodeB, CodeA>>
    /\ texture.codes = <<>>

\* C16: a start() or stop() that changes the play flag changes nothing
\* else: symbols, code_types, the thread reference, every thread's progress
\* and the scheduled calls stay as they are.
C16_StartStopOnlyPlay ==
    [][play' # play
       => /\ symbols' = symbols
          /\ code_types' = code_types
          /\ detect_qrcode_frame_thread' = detect_qrcode_frame_thread
          /\ clock' = clock
          /\ DOMAIN threads' = DOMAIN threads
          /\ \A t \in DOMAIN threads :
                /\ threads'[t].pc = threads[t].pc
                /\ threads'[t].frame = threads[t].frame]_vars

\* C16 witness: the camera is stopped, a decode is still in flight and the
\* published list is still there.
C16_Witness ==
    /\ ~play
    /\ Alive # {}
    /\ symbols # <<>>

\* C17: the synchronous variant builds the image as RGBA on ios when the
\* texture is bgra, and in the texture's own upper-cased format otherwise.
C17_ImageFormat ==
    (variant = "sync" /\ arrived > 0)
        => pil_mode = CASE platform = "ios" /\ texture.colorfmt = "bgra" -> "RGBA"
                        [] platform # "ios" /\ texture.colorfmt = "bgra" -> "BGRA"
                        [] texture.colorfmt = "rgba" -> "RGBA"

\* C17 witness: a bgra frame has been handled on ios.
C17_Witness ==
    /\ variant = "sync"
    /\ platform = "ios"
    /\ arrived > 0
    /\ texture.colorfmt = "bgra"
    /\ pil_mode = "RGBA"

\* C14: with workers and clock scheduled fairly, the cycle of every accepted
\* frame ends, and a cycle that returned has had its result assigned to
\* symbols; the step that ends a cycle leaves no worker alive; no cycle is
\* ever assigned twice, and a cycle that has not returned not at all.
C14_CycleEndsOnePublish ==
    /\ [](\A t \in DOMAIN threads :
             /\ threads[t].pubs <= 1
             /\ threads[t].pc # "done" => threads[t].pubs = 0)
    /\ [][\A t \in DOMAIN threads :
             (threads'[t].pc \in {"done", "raised"}
              /\ threads[t].pc \notin {"done", "raised"})
                 => \A u \in DOMAIN threads' :
                       threads'[u].pc \in {"done", "raised"}]_vars
    /\ \A t \in 1..MaxFrames :
          (t \in DOMAIN threads)
              ~> (/\ t \in DOMAIN threads
                  /\ Ended(t)
                  /\ threads[t].pc = "done" => threads[t].pubs = 1)

\* C14 witness: a cycle went through the clock and was assigned once, and
\* the scheduler is idle.
C14_Witness ==
    /\ Alive = {}
    /\ clock = <<>>
    /\ \E t \in DOMAIN threads :
          /\ threads[t].pc = "done"
          /\ threads[t].codes # <<>>
          /\ threads[t].pubs = 1

====
